---- MODULE Spec2Model ----
(***************************************************************************)
(* A model of the user CRUD service: the five handlers of                  *)
(* src/api/users/route.rs, the record mapping of src/db/models/users.rs    *)
(* and the error mapping of src/error.rs, run by concurrent requests on a  *)
(* shared table.  Every await point of a handler is a step boundary.       *)
(***************************************************************************)
EXTENDS Integers, Sequences, FiniteSets, TLC

(* ------------------------------ bounds --------------------------------- *)

\* The wall clock is read in ticks; the clock stops at MaxTime.
MaxTime == 1

\* Clock ticks per millisecond (the clock is finer than a stored timestamp).
TicksPerMs == 1

MAX_DB_CONNECTIONS == 10

\* The request slots: two requests can be in flight at once.
Procs == {"p1", "p2"}

Usernames == {"al", "bo"}

FirstNames == {"x"}

LastNames == {"y"}

(* ------------------------------ options -------------------------------- *)

\* Rust's Option<T>: None is the empty sequence, Some(v) a one-element one.
None == <<>>

Some(v) == <<v>>

IsSome(o) == Len(o) = 1

Unwrap(o) == o[1]

Option(S) == {None} \cup {Some(v) : v \in S}

\* Rust's Result<T, E>.
Ok(v) == [ok |-> TRUE, value |-> v]

Err(e) == [ok |-> FALSE, err |-> e]

(* ----------------------------- timestamps ------------------------------ *)

\* jiff::Timestamp: whole milliseconds and the clock ticks below them.
TimestampOf(tick) == [ms |-> tick \div TicksPerMs, sub |-> tick % TicksPerMs]

as_millisecond(ts) == ts.ms

\* The milliseconds a Timestamp can hold: jiff's range reaches from long
\* before the clock's origin to long after any reading of the clock, here
\* a hundred times the clock's run to either side.
TimestampMaxMs == 100 * (MaxTime + 1)

TimestampMinMs == -TimestampMaxMs

\* Timestamp::from_millisecond: an error outside the range.
from_millisecond(ms) ==
    IF TimestampMinMs <= ms /\ ms <= TimestampMaxMs
    THEN Ok([ms |-> ms, sub |-> 0])
    ELSE Err("out of range")

\* Result::expect: the value of an Ok; on an Err the thread panics, which
\* Panics tells beforehand.
expect(result) == result.value

\* format!("dummy-user-{current_time}"): the timestamp at full resolution.
FormatId(ts) == [prefix |-> "dummy-user-", time |-> ts]

\* The ids a request path can carry.
PathIds == {FormatId(TimestampOf(t)) : t \in 0..MaxTime}

(* ------------------------------ wire input ----------------------------- *)

\* A JSON member of a request body: missing, null, or a string.
Absent == [json |-> "absent"]

Null == [json |-> "null"]

Str(s) == [json |-> "string", value |-> s]

JsonMember(S) == {Absent, Null} \cup {Str(s) : s \in S}

\* serde on Option<T>: a missing member and a null both give None.
DeserializeOption(m) == IF m.json = "string" THEN Some(m.value) ELSE None

\* serde_with::rust::double_option with `default`: a missing member gives
\* None, a null Some(None), a string Some(Some(s)).
DeserializeDoubleOption(m) ==
    CASE m.json = "absent" -> None
      [] m.json = "null" -> Some(None)
      [] OTHER -> Some(Some(m.value))

\* Json<UserUpdate>
DeserializeUserUpdate(body) ==
    [username |-> DeserializeOption(body.username),
     first_name |-> DeserializeDoubleOption(body.first_name),
     last_name |-> DeserializeDoubleOption(body.last_name)]

\* Json<NewUser>: username is required, so it is always a string here.
DeserializeNewUser(body) ==
    [username |-> body.username.value,
     first_name |-> DeserializeOption(body.first_name),
     last_name |-> DeserializeOption(body.last_name),
     created_at |-> DeserializeOption(body.created_at)]

\* PATCH bodies: every member missing, every member null, every member set.
UpdateBodies ==
    {[username |-> Absent, first_name |-> Absent, last_name |-> Absent],
     [username |-> Null, first_name |-> Null, last_name |-> Null]}
    \cup {[username |-> Str(u), first_name |-> Str(f), last_name |-> Str(l)] :
              u \in Usernames, f \in FirstNames, l \in LastNames}

\* A created_at sent by a client: a time the clock does not reach.
ClientTime == TimestampOf(MaxTime + TicksPerMs)

\* POST bodies: the username alone, or with both names, or with a
\* created_at.
NewUserBodies ==
    {[username |-> Str(u), first_name |-> Absent, last_name |-> Absent,
      created_at |-> Absent] : u \in Usernames}
    \cup {[username |-> Str(u), first_name |-> Str(f), last_name |-> Str(l),
           created_at |-> Absent] : u \in Usernames, f \in FirstNames, l \in LastNames}
    \cup {[username |-> Str(u), first_name |-> Absent, last_name |-> Absent,
           created_at |-> Str(ClientTime)] : u \in {CHOOSE v \in Usernames : TRUE}}

\* A POST body and a PATCH body whose username is the empty string.
EmptyUsernameNewUser ==
    [username |-> Str(""), first_name |-> Absent, last_name |-> Absent, created_at |-> Absent]

EmptyUsernameUpdate ==
    [username |-> Str(""), first_name |-> Absent, last_name |-> Absent]

\* #[derive(Validate)] on a struct none of whose fields carries a rule.
validate(input) == TRUE

(* ------------------------------- errors -------------------------------- *)

\* diesel::result::Error, as far as database_error tells its values apart.
NotFound == [variant |-> "NotFound", kind |-> "-"]

UniqueViolation == [variant |-> "DatabaseError", kind |-> "UniqueViolation"]

ForeignKeyViolation == [variant |-> "DatabaseError", kind |-> "ForeignKeyViolation"]

ClosedConnection == [variant |-> "DatabaseError", kind |-> "ClosedConnection"]

\* deadpool's PoolError when no connection can be handed out.
PoolError == [variant |-> "PoolError", kind |-> "Backend"]

\* validator::ValidationErrors
ValidationErrors == [variant |-> "ValidationErrors", kind |-> "-"]

\* err.to_string()
Display(err) ==
    CASE err.variant = "NotFound" -> "Record not found"
      [] err.variant = "DatabaseError" -> err.kind
      [] err.variant = "PoolError" -> "Error occurred while creating a new object"
      [] err.variant = "ValidationErrors" -> "validation failed"
      [] OTHER -> err.variant

\* serde_json::to_string(&ErrorResponse { code, description })
ErrorResponse(code, description) ==
    [format |-> "json", code |-> code, description |-> description]

internal_error(err) ==
    [status |-> 500, body |-> [format |-> "text", text |-> Display(err)]]

bad_request_error(err) ==
    [status |-> 400, body |-> ErrorResponse(400, Display(err))]

not_found_error(err) ==
    [status |-> 404, body |-> ErrorResponse(404, Display(err))]

conflict_error(err) ==
    [status |-> 409, body |-> ErrorResponse(409, Display(err))]

unprocessable_entity_error(err) ==
    [status |-> 422, body |-> ErrorResponse(422, Display(err))]

\* database_error without its NotFound arm.
database_error_NoNotFoundArm(err) ==
    CASE err.variant = "DatabaseError" /\ err.kind = "ForeignKeyViolation" ->
            unprocessable_entity_error(err)
      [] err.variant = "DatabaseError" /\ err.kind = "UniqueViolation" ->
            conflict_error(err)
      [] OTHER -> internal_error(err)

\* database_error without its UniqueViolation arm.
database_error_NoConflictArm(err) ==
    CASE err.variant = "NotFound" -> not_found_error(err)
      [] err.variant = "DatabaseError" /\ err.kind = "ForeignKeyViolation" ->
            unprocessable_entity_error(err)
      [] OTHER -> internal_error(err)

\* database_error with the two constraint arms exchanged.
database_error_ArmsSwapped(err) ==
    CASE err.variant = "NotFound" -> not_found_error(err)
      [] err.variant = "DatabaseError" /\ err.kind = "ForeignKeyViolation" ->
            conflict_error(err)
      [] err.variant = "DatabaseError" /\ err.kind = "UniqueViolation" ->
            unprocessable_entity_error(err)
      [] OTHER -> internal_error(err)

database_error(err) ==
    CASE err.variant = "NotFound" -> not_found_error(err)
      [] err.variant = "DatabaseError" /\ err.kind = "ForeignKeyViolation" ->
            unprocessable_entity_error(err)
      [] err.variant = "DatabaseError" /\ err.kind = "UniqueViolation" ->
            conflict_error(err)
      [] OTHER -> internal_error(err)

(* --------------------------- record mapping ---------------------------- *)

\* impl From<UserRecord> for User
UserFrom(record) ==
    [id |-> record.id,
     username |-> record.username,
     first_name |-> record.first_name,
     last_name |-> record.last_name,
     updated_at |-> expect(from_millisecond(record.updated_at)),
     created_at |-> expect(from_millisecond(record.created_at))]

\* The conversion of `record` panics with "Invalid timestamp".
Panics(record) ==
    \/ ~from_millisecond(record.updated_at).ok
    \/ ~from_millisecond(record.created_at).ok

\* into_new_record with created_at taken from the input when it has one.
into_new_record_CreatedAtFromInput(new_user, current_time) ==
    [id |-> FormatId(current_time),
     username |-> new_user.username,
     first_name |-> new_user.first_name,
     last_name |-> new_user.last_name,
     created_at |-> IF IsSome(new_user.created_at)
                    THEN as_millisecond(Unwrap(new_user.created_at))
                    ELSE as_millisecond(current_time),
     updated_at |-> as_millisecond(current_time)]

\* into_new_record with first_name and last_name taken from each other.
into_new_record_NamesSwapped(new_user, current_time) ==
    [id |-> FormatId(current_time),
     username |-> new_user.username,
     first_name |-> new_user.last_name,
     last_name |-> new_user.first_name,
     created_at |-> as_millisecond(current_time),
     updated_at |-> as_millisecond(current_time)]

\* impl IntoNewRecord for NewUser, with current_time = Timestamp::now()
into_new_record(new_user, current_time) ==
    [id |-> FormatId(current_time),
     username |-> new_user.username,
     first_name |-> new_user.first_name,
     last_name |-> new_user.last_name,
     created_at |-> as_millisecond(current_time),
     updated_at |-> as_millisecond(current_time)]

\* The conversion with updated_at counted in microseconds.
UserUpdateRecordFrom_Microseconds(user_update, current_time) ==
    [username |-> user_update.username,
     first_name |-> user_update.first_name,
     last_name |-> user_update.last_name,
     updated_at |-> Some(1000 * as_millisecond(current_time))]

\* impl From<UserUpdate> for UserUpdateRecord, with current_time = Timestamp::now()
UserUpdateRecordFrom(user_update, current_time) ==
    [username |-> user_update.username,
     first_name |-> user_update.first_name,
     last_name |-> user_update.last_name,
     updated_at |-> Some(as_millisecond(current_time))]

\* AsChangeset with the names declared Option<String>: a null is left out
\* of the SET clause like a missing member.
AsChangeset_NullSkipped(row, update) ==
    [id |-> row.id,
     username |-> IF IsSome(update.username) THEN Unwrap(update.username) ELSE row.username,
     first_name |-> IF IsSome(update.first_name) /\ IsSome(Unwrap(update.first_name))
                    THEN Unwrap(update.first_name) ELSE row.first_name,
     last_name |-> IF IsSome(update.last_name) /\ IsSome(Unwrap(update.last_name))
                   THEN Unwrap(update.last_name) ELSE row.last_name,
     updated_at |-> IF IsSome(update.updated_at) THEN Unwrap(update.updated_at) ELSE row.updated_at,
     created_at |-> row.created_at]

\* AsChangeset with created_at among the columns the update stamps.
AsChangeset_CreatedAtStamped(row, update) ==
    [id |-> row.id,
     username |-> IF IsSome(update.username) THEN Unwrap(update.username) ELSE row.username,
     first_name |-> IF IsSome(update.first_name) THEN Unwrap(update.first_name) ELSE row.first_name,
     last_name |-> IF IsSome(update.last_name) THEN Unwrap(update.last_name) ELSE row.last_name,
     updated_at |-> IF IsSome(update.updated_at) THEN Unwrap(update.updated_at) ELSE row.updated_at,
     created_at |-> IF IsSome(update.updated_at) THEN Unwrap(update.updated_at) ELSE row.created_at]

\* #[derive(AsChangeset)] on UserUpdateRecord: a None field is left out of
\* the SET clause, Some(v) assigns v (for a nullable column Some(None) is NULL).
AsChangeset(row, update) ==
    [id |-> row.id,
     username |-> IF IsSome(update.username) THEN Unwrap(update.username) ELSE row.username,
     first_name |-> IF IsSome(update.first_name) THEN Unwrap(update.first_name) ELSE row.first_name,
     last_name |-> IF IsSome(update.last_name) THEN Unwrap(update.last_name) ELSE row.last_name,
     updated_at |-> IF IsSome(update.updated_at) THEN Unwrap(update.updated_at) ELSE row.updated_at,
     created_at |-> row.created_at]

(* ------------------------------ the store ------------------------------ *)

RowsById(table, id) == {r \in table : r.id = id}

\* #[derive(Identifiable)] on UserRecord: id is the primary key.
PrimaryKeyTaken(table, id) == RowsById(table, id) # {}

\* The table's uniqueness constraint on username.
UsernameTaken(table, username, id) ==
    \E r \in table : r.username = username /\ r.id # id

\* users.filter(user_id.eq(id)).first(&mut conn)
first(table, id) ==
    IF RowsById(table, id) = {} THEN Err(NotFound)
    ELSE Ok(CHOOSE r \in table : r.id = id)

\* diesel::insert_into(users).values(record).get_result(&mut conn)
insert_into(table, record) ==
    IF PrimaryKeyTaken(table, record.id) \/ UsernameTaken(table, record.username, record.id)
    THEN [result |-> Err(UniqueViolation), table |-> table]
    ELSE [result |-> Ok(record), table |-> table \cup {record}]

\* diesel::update(users).filter(user_id.eq(id)).set(&update).returning(..).get_result(&mut conn)
update_returning(table, id, update) ==
    IF RowsById(table, id) = {} THEN [result |-> Err(NotFound), table |-> table]
    ELSE LET old == CHOOSE r \in table : r.id = id
             new == AsChangeset(old, update)
         IN  IF UsernameTaken(table, new.username, id)
             THEN [result |-> Err(UniqueViolation), table |-> table]
             ELSE [result |-> Ok(new), table |-> (table \ {old}) \cup {new}]

\* The DELETE statement without its filter on the id.
delete_execute_NoFilter(table, id) ==
    [result |-> Ok(Cardinality(table)), table |-> {}]

\* The DELETE statement counting the rows it matches and leaving them.
delete_execute_RowsKept(table, id) ==
    [result |-> Ok(Cardinality(RowsById(table, id))), table |-> table]

\* diesel::delete(users.filter(user_id.eq(id))).execute(&mut conn): the
\* number of rows removed, which is 0 and no error when no row matches.
delete_execute(table, id) ==
    [result |-> Ok(Cardinality(RowsById(table, id))), table |-> table \ RowsById(table, id)]

(* ------------------------------- state --------------------------------- *)

VARIABLES
    now,     \* the wall clock, in ticks
    users,   \* the users table: a set of UserRecord rows
    pc,      \* per request slot: where its handler stands
    req,     \* per request slot: the handler and its extracted arguments
    loc,     \* per request slot: the handler's local record, if any
    resp,    \* per request slot: the response returned, if any
    conn,    \* per request slot: pooled connections the handler holds
    obs,     \* per request slot: what its store statements met (history only)
    hist,    \* what has happened to each id so far, if kept (history only)
    failure, \* a failure raised at one of the handlers' `?` sites
    outcome  \* the response that site's map_err gives it, once classified

vars == <<now, users, pc, req, loc, resp, conn, obs, hist, failure, outcome>>

classifier == <<failure, outcome>>

NoReq == [op |-> "none"]

\* Nothing observed yet.
NoObs ==
    [found |-> None,       \* did the keyed statement meet a row with the id
     pre |-> None,         \* the row an UPDATE met
     post |-> None,        \* the row an UPDATE or INSERT left
     taken |-> None,       \* was the username held by another row
     affected |-> None,    \* rows removed by the DELETE statement
     removed |-> None,     \* the row the DELETE statement removed
     overtaken |-> FALSE]  \* another DELETE removed the fetched row first

\* Nothing has happened to any id.
NoHist ==
    [created |-> {},   \* [id, input] of the rows inserted and not updated or deleted since
     deleted |-> {}]   \* the ids a successful delete named, not inserted since

\* The history after an INSERT stored `input` as the row `id`.
Inserted(h, id, input) ==
    [created |-> {c \in h.created : c.id # id} \cup {[id |-> id, input |-> input]},
     deleted |-> h.deleted \ {id}]

\* The history after an UPDATE changed the row `id`.
Updated(h, id) == [h EXCEPT !.created = {c \in @ : c.id # id}]

\* The history after a delete of `id` returned success.
Deleted(h, id) ==
    [created |-> {c \in h.created : c.id # id}, deleted |-> h.deleted \cup {id}]

\* The request slots of this run.
Slots == DOMAIN pc

RECURSIVE Sum(_, _)
Sum(f, S) == IF S = {} THEN 0 ELSE LET x == CHOOSE y \in S : TRUE IN f[x] + Sum(f, S \ {x})

\* Connections the pool has handed out and not yet got back.
InUse == Sum(conn, Slots)

\* The `?` sites of the handlers, by the map_err each goes through.
Sites ==
    {[handler |-> h, site |-> "pool"] :
        h \in {"list_users", "get_user", "create_user", "update_user", "delete_user"}}
    \cup {[handler |-> h, site |-> "validate"] : h \in {"create_user", "update_user"}}
    \cup {[handler |-> h, site |-> "statement"] :
        h \in {"list_users", "get_user", "create_user", "update_user", "delete_user"}}

\* diesel::result::Error
DieselErrors ==
    {[variant |-> v, kind |-> "-"] :
        v \in {"NotFound", "InvalidCString", "QueryBuilderError", "DeserializationError",
               "SerializationError", "RollbackTransaction", "AlreadyInTransaction",
               "NotInTransaction", "BrokenTransactionManager"}}
    \cup {[variant |-> "DatabaseError", kind |-> k] :
        k \in {"UniqueViolation", "ForeignKeyViolation", "UnableToSendCommand",
               "SerializationFailure", "ReadOnlyTransaction", "NotNullViolation",
               "CheckViolation", "ClosedConnection", "Unknown"}}

\* deadpool::managed::PoolError
PoolErrors ==
    {[variant |-> "PoolError", kind |-> k] :
        k \in {"Timeout", "Backend", "Closed", "NoRuntimeSpecified", "PostCreateHook"}}

Failures ==
    {[at |-> s, err |-> e] : s \in {x \in Sites : x.site = "statement"}, e \in DieselErrors}
    \cup {[at |-> s, err |-> e] : s \in {x \in Sites : x.site = "pool"}, e \in PoolErrors}
    \cup {[at |-> s, err |-> ValidationErrors] : s \in {x \in Sites : x.site = "validate"}}

NoFailure == [at |-> [handler |-> "none", site |-> "none"], err |-> NotFound]

\* The map_err at each `?` site of the handlers.
map_err(f) ==
    CASE f.at.site = "validate" -> bad_request_error(f.err)
      [] f.at.site = "pool" -> internal_error(f.err)
      [] OTHER -> database_error(f.err)

Init ==
    /\ now = 0
    /\ users = {}
    /\ pc = [p \in Procs |-> "idle"]
    /\ req = [p \in Procs |-> NoReq]
    /\ loc = [p \in Procs |-> None]
    /\ resp = [p \in Procs |-> None]
    /\ conn = [p \in Procs |-> 0]
    /\ obs = [p \in Procs |-> NoObs]
    /\ hist = None
    /\ failure = NoFailure
    /\ outcome = None

\* No response is waiting to be sent.
Quiet == \A q \in Slots : pc[q] # "done"

\* Slot p stands at `label` and may run.  A finished handler's response is
\* sent before anything else runs: sending touches no shared state, so
\* every order of the other steps is still taken.
At(p, label) == Quiet /\ pc[p] = label

\* Return, with the connection kept when the handler leaves through `?`.
Return_LeakOnFailure(p, response) ==
    /\ pc' = [pc EXCEPT ![p] = "done"]
    /\ resp' = [resp EXCEPT ![p] = Some(response)]
    /\ conn' = [conn EXCEPT ![p] = IF response.status = 200 THEN 0 ELSE @]

\* The handler returns `response`; `conn` goes out of scope, which gives
\* the connection, if one was taken, back to the pool.
Return(p, response) ==
    /\ pc' = [pc EXCEPT ![p] = "done"]
    /\ resp' = [resp EXCEPT ![p] = Some(response)]
    /\ conn' = [conn EXCEPT ![p] = 0]

Success(body) == [status |-> 200, body |-> body]

\* The handler panicked: its task ends and no response is written.
Panicked == [status |-> 0, body |-> [format |-> "none", text |-> "Invalid timestamp"]]

\* Ok(Json(record.into()))
JsonUser(record) ==
    IF Panics(record) THEN Panicked
    ELSE Success([format |-> "json", user |-> UserFrom(record)])

\* Ok(Json(records.into_iter().map(Into::into).collect()))
JsonUsers(records) ==
    IF \E r \in records : Panics(r) THEN Panicked
    ELSE Success([format |-> "json", list |-> {UserFrom(r) : r \in records}])

(* ------------------------------ the clock ------------------------------ *)

Tick ==
    /\ Quiet
    /\ now < MaxTime
    /\ now' = now + 1
    /\ UNCHANGED <<users, pc, req, loc, resp, conn, obs, hist>>
    /\ UNCHANGED classifier

(* ------------------------- requests arriving --------------------------- *)

\* GET /users: up to the await of pool.get().
list_users_call(p) ==
    /\ At(p, "idle")
    /\ req' = [req EXCEPT ![p] = [op |-> "list"]]
    /\ pc' = [pc EXCEPT ![p] = "acquire"]
    /\ UNCHANGED <<now, users, loc, resp, conn, obs, hist>>
    /\ UNCHANGED classifier

\* GET /users/{id}: up to the await of pool.get().
get_user_call(p, id) ==
    /\ At(p, "idle")
    /\ req' = [req EXCEPT ![p] = [op |-> "get", id |-> id]]
    /\ pc' = [pc EXCEPT ![p] = "acquire"]
    /\ UNCHANGED <<now, users, loc, resp, conn, obs, hist>>
    /\ UNCHANGED classifier

\* POST /users: validate, then await pool.get().
create_user_call(p, body) ==
    /\ At(p, "idle")
    /\ req' = [req EXCEPT ![p] = [op |-> "create", body |-> body]]
    /\ IF validate(DeserializeNewUser(body))
       THEN /\ pc' = [pc EXCEPT ![p] = "acquire"]
            /\ UNCHANGED <<resp, conn>>
       ELSE Return(p, bad_request_error(ValidationErrors))
    /\ UNCHANGED <<now, users, loc, obs, hist>>
    /\ UNCHANGED classifier

\* PATCH /users/{id}: validate, build the UserUpdateRecord (which reads the
\* clock), then await pool.get().
update_user_call(p, id, body) ==
    /\ At(p, "idle")
    /\ req' = [req EXCEPT ![p] = [op |-> "update", id |-> id, body |-> body]]
    /\ IF validate(DeserializeUserUpdate(body))
       THEN /\ pc' = [pc EXCEPT ![p] = "acquire"]
            /\ loc' = [loc EXCEPT ![p] =
                  Some(UserUpdateRecordFrom(DeserializeUserUpdate(body), TimestampOf(now)))]
            /\ UNCHANGED <<resp, conn>>
       ELSE /\ Return(p, bad_request_error(ValidationErrors))
            /\ UNCHANGED loc
    /\ UNCHANGED <<now, users, obs, hist>>
    /\ UNCHANGED classifier

\* DELETE /users/{id}: up to the await of pool.get().
delete_user_call(p, id) ==
    /\ At(p, "idle")
    /\ req' = [req EXCEPT ![p] = [op |-> "delete", id |-> id]]
    /\ pc' = [pc EXCEPT ![p] = "acquire"]
    /\ UNCHANGED <<now, users, loc, resp, conn, obs, hist>>
    /\ UNCHANGED classifier

(* ------------------------------ the pool ------------------------------- *)

\* pool.get() hands out a connection; the handler runs on to the await of
\* its first statement.  create_user builds its record here.
pool_get_ok(p) ==
    /\ At(p, "acquire")
    /\ InUse < MAX_DB_CONNECTIONS
    /\ conn' = [conn EXCEPT ![p] = @ + 1]
    /\ pc' = [pc EXCEPT ![p] = "query"]
    /\ loc' = [loc EXCEPT ![p] =
          IF req[p].op = "create"
          THEN Some(into_new_record(DeserializeNewUser(req[p].body), TimestampOf(now)))
          ELSE @]
    /\ UNCHANGED <<now, users, req, resp, obs, hist>>
    /\ UNCHANGED classifier

\* pool.get() fails: .map_err(internal_error)?
pool_get_err(p) ==
    /\ At(p, "acquire")
    /\ Return(p, internal_error(PoolError))
    /\ UNCHANGED <<now, users, req, loc, obs, hist>>
    /\ UNCHANGED classifier

\* A statement fails for a reason of the connection: .map_err(database_error)?
statement_err(p) ==
    /\ Quiet /\ pc[p] \in {"query", "execute"}
    /\ Return(p, database_error(ClosedConnection))
    /\ UNCHANGED <<now, users, req, loc, obs, hist>>
    /\ UNCHANGED classifier

(* --------------------------- the statements ---------------------------- *)

\* users.load(&mut conn)
list_users_load(p) ==
    /\ At(p, "query") /\ req[p].op = "list"
    /\ Return(p, JsonUsers(users))
    /\ UNCHANGED <<now, users, req, loc, obs, hist>>
    /\ UNCHANGED classifier

\* users.filter(user_id.eq(id)).first(&mut conn)
get_user_first(p) ==
    /\ At(p, "query") /\ req[p].op = "get"
    /\ LET r == first(users, req[p].id)
       IN  /\ Return(p, IF r.ok THEN JsonUser(r.value)
                        ELSE database_error(r.err))
           /\ obs' = [obs EXCEPT ![p].found = Some(r.ok)]
    /\ UNCHANGED <<now, users, req, loc, hist>>
    /\ UNCHANGED classifier

\* diesel::insert_into(users).values(record).get_result(&mut conn)
create_user_insert(p) ==
    /\ At(p, "query") /\ req[p].op = "create"
    /\ LET record == Unwrap(loc[p])
           r == insert_into(users, record)
       IN  /\ users' = r.table
           /\ Return(p, IF r.result.ok
                        THEN JsonUser(r.result.value)
                        ELSE database_error(r.result.err))
           /\ obs' = [obs EXCEPT
                 ![p].taken = Some(UsernameTaken(users, record.username, record.id)),
                 ![p].post = IF r.result.ok THEN Some(r.result.value) ELSE None]
           /\ hist' = IF r.result.ok /\ IsSome(hist)
                      THEN Some(Inserted(Unwrap(hist), record.id,
                                         DeserializeNewUser(req[p].body)))
                      ELSE hist
    /\ UNCHANGED <<now, req, loc>>
    /\ UNCHANGED classifier

\* diesel::update(users).filter(user_id.eq(id)).set(&update).returning(..)
update_user_exec(p) ==
    /\ At(p, "query") /\ req[p].op = "update"
    /\ LET id == req[p].id
           update == Unwrap(loc[p])
           r == update_returning(users, id, update)
           hit == RowsById(users, id)
       IN  /\ users' = r.table
           /\ Return(p, IF r.result.ok
                        THEN JsonUser(r.result.value)
                        ELSE database_error(r.result.err))
           /\ obs' = [obs EXCEPT
                 ![p].found = Some(hit # {}),
                 ![p].pre = IF hit # {} THEN Some(CHOOSE x \in hit : TRUE) ELSE None,
                 ![p].post = IF r.result.ok THEN Some(r.result.value) ELSE None,
                 ![p].taken = IF hit # {}
                              THEN Some(UsernameTaken(users,
                                        AsChangeset(CHOOSE x \in hit : TRUE, update).username, id))
                              ELSE None]
           /\ hist' = IF r.result.ok /\ IsSome(hist)
                      THEN Some(Updated(Unwrap(hist), id))
                      ELSE hist
    /\ UNCHANGED <<now, req, loc>>
    /\ UNCHANGED classifier

\* delete_user, first statement: fetch the record to return.
delete_user_first(p) ==
    /\ At(p, "query") /\ req[p].op = "delete"
    /\ LET r == first(users, req[p].id)
       IN  /\ IF r.ok
              THEN /\ loc' = [loc EXCEPT ![p] = Some(r.value)]
                   /\ pc' = [pc EXCEPT ![p] = "execute"]
                   /\ UNCHANGED <<resp, conn>>
              ELSE /\ Return(p, database_error(r.err))
                   /\ UNCHANGED loc
           /\ obs' = [obs EXCEPT ![p].found = Some(r.ok)]
    /\ UNCHANGED <<now, users, req, hist>>
    /\ UNCHANGED classifier

\* delete_user, second statement: remove the row, return the fetched record.
delete_user_execute(p) ==
    /\ At(p, "execute") /\ req[p].op = "delete"
    /\ LET id == req[p].id
           r == delete_execute(users, id)
           gone == RowsById(users, id)
       IN  /\ users' = r.table
           /\ Return(p, IF r.result.ok
                        THEN JsonUser(Unwrap(loc[p]))
                        ELSE database_error(r.result.err))
           /\ obs' = [q \in Slots |->
                 IF q = p
                 THEN [obs[q] EXCEPT
                         !.affected = Some(r.result.value),
                         !.removed = IF gone # {} THEN Some(CHOOSE x \in gone : TRUE) ELSE None]
                 ELSE IF pc[q] = "execute" /\ req[q].id = id /\ gone # {}
                      THEN [obs[q] EXCEPT !.overtaken = TRUE]
                      ELSE obs[q]]
           /\ hist' = IF r.result.ok /\ IsSome(hist)
                      THEN Some(Deleted(Unwrap(hist), id))
                      ELSE hist
    /\ UNCHANGED <<now, req, loc>>
    /\ UNCHANGED classifier

\* The response has been sent; the slot takes the next request.
respond(p) ==
    /\ pc[p] = "done"
    /\ pc' = [pc EXCEPT ![p] = "idle"]
    /\ req' = [req EXCEPT ![p] = NoReq]
    /\ loc' = [loc EXCEPT ![p] = None]
    /\ resp' = [resp EXCEPT ![p] = None]
    /\ obs' = [obs EXCEPT ![p] = NoObs]
    /\ UNCHANGED <<now, users, conn, hist>>
    /\ UNCHANGED classifier

Next ==
    \/ Tick
    \/ \E p \in Procs : list_users_call(p)
    \/ \E p \in Procs, id \in PathIds : get_user_call(p, id)
    \/ \E p \in Procs, body \in NewUserBodies : create_user_call(p, body)
    \/ \E p \in Procs, id \in PathIds, body \in UpdateBodies : update_user_call(p, id, body)
    \/ \E p \in Procs, id \in PathIds : delete_user_call(p, id)
    \/ \E p \in Procs : pool_get_ok(p)
    \/ \E p \in Procs : pool_get_err(p)
    \/ \E p \in Procs : statement_err(p)
    \/ \E p \in Procs : list_users_load(p)
    \/ \E p \in Procs : get_user_first(p)
    \/ \E p \in Procs : create_user_insert(p)
    \/ \E p \in Procs : update_user_exec(p)
    \/ \E p \in Procs : delete_user_first(p)
    \/ \E p \in Procs : delete_user_execute(p)
    \/ \E p \in Procs : respond(p)

Spec == Init /\ [][Next]_vars

(* ------------------------- the pool at its limit ----------------------- *)

\* Nine list_users requests that hold a connection each and whose load
\* stays pending: with them one connection is left for the request slots.
Stalled == {"s1", "s2", "s3", "s4", "s5", "s6", "s7", "s8", "s9"}

\* The request slots alone, or beside the nine pending requests.
InitPool ==
    /\ now = 0
    /\ users = {}
    /\ \E S \in {{}, Stalled} :
          /\ pc = [p \in Procs \cup S |-> IF p \in S THEN "query" ELSE "idle"]
          /\ req = [p \in Procs \cup S |-> IF p \in S THEN [op |-> "list"] ELSE NoReq]
          /\ loc = [p \in Procs \cup S |-> None]
          /\ resp = [p \in Procs \cup S |-> None]
          /\ conn = [p \in Procs \cup S |-> IF p \in S THEN 1 ELSE 0]
          /\ obs = [p \in Procs \cup S |-> NoObs]
    /\ hist = None
    /\ failure = NoFailure
    /\ outcome = None

\* The handlers of the request slots, the clock standing still.
NextPool ==
    \/ \E p \in Procs : list_users_call(p)
    \/ \E p \in Procs, id \in PathIds : get_user_call(p, id)
    \/ \E p \in Procs, body \in NewUserBodies : create_user_call(p, body)
    \/ \E p \in Procs, id \in PathIds, body \in UpdateBodies : update_user_call(p, id, body)
    \/ \E p \in Procs, id \in PathIds : delete_user_call(p, id)
    \/ \E p \in Procs : pool_get_ok(p)
    \/ \E p \in Procs : pool_get_err(p)
    \/ \E p \in Procs : statement_err(p)
    \/ \E p \in Procs : list_users_load(p)
    \/ \E p \in Procs : get_user_first(p)
    \/ \E p \in Procs : create_user_insert(p)
    \/ \E p \in Procs : update_user_exec(p)
    \/ \E p \in Procs : delete_user_first(p)
    \/ \E p \in Procs : delete_user_execute(p)
    \/ \E p \in Procs : respond(p)

SpecPool == InitPool /\ [][NextPool]_vars

(* ---------------------- requests with an empty username --------------- *)

\* The handlers, the clock standing still, with bodies whose username is
\* empty among the requests.
NextValidate ==
    \/ NextPool
    \/ \E p \in Procs : create_user_call(p, EmptyUsernameNewUser)
    \/ \E p \in Procs, id \in PathIds : update_user_call(p, id, EmptyUsernameUpdate)

SpecValidate == Init /\ [][NextValidate]_vars

(* ------------------------ the service with a history ------------------- *)

\* The service started as in Init, a history of the ids being kept.
InitHistory ==
    /\ now = 0
    /\ users = {}
    /\ pc = [p \in Procs |-> "idle"]
    /\ req = [p \in Procs |-> NoReq]
    /\ loc = [p \in Procs |-> None]
    /\ resp = [p \in Procs |-> None]
    /\ conn = [p \in Procs |-> 0]
    /\ obs = [p \in Procs |-> NoObs]
    /\ hist = Some(NoHist)
    /\ failure = NoFailure
    /\ outcome = None

SpecHistory == InitHistory /\ [][Next]_vars

(* --------------------- the classifier on its own ----------------------- *)

InitClassify ==
    /\ now = 0
    /\ users = {}
    /\ pc = [p \in Procs |-> "idle"]
    /\ req = [p \in Procs |-> NoReq]
    /\ loc = [p \in Procs |-> None]
    /\ resp = [p \in Procs |-> None]
    /\ conn = [p \in Procs |-> 0]
    /\ obs = [p \in Procs |-> NoObs]
    /\ hist = None
    /\ failure \in Failures
    /\ outcome = None

classify ==
    /\ outcome = None
    /\ outcome' = Some(map_err(failure))
    /\ UNCHANGED <<now, users, pc, req, loc, resp, conn, obs, hist, failure>>

SpecClassify == InitClassify /\ [][classify]_vars

(* ------------------------------- claims -------------------------------- *)

Done(p) == pc[p] = "done"

Status(p) == Unwrap(resp[p]).status

Body(p) == Unwrap(resp[p]).body

IsEnvelope(response) ==
    /\ response.body.format = "json"
    /\ DOMAIN response.body = {"format", "code", "description"}
    /\ response.body.code = response.status

\* C1: of the delete calls that fetched the same row, at most one returns
\* success: a delete whose fetched row was removed by another delete before
\* its own removal ran does not return 200.
C1_AtMostOneDeleteSucceeds ==
    \A p \in Procs :
        Done(p) /\ req[p].op = "delete" /\ obs[p].overtaken => Status(p) # 200

\* C2: a successful delete returns the row as it was when this delete
\* removed it.
C2_DeleteReturnsRemovedRow ==
    \A p \in Procs :
        Done(p) /\ req[p].op = "delete" /\ Status(p) = 200 /\ IsSome(obs[p].removed)
            => Body(p).user = UserFrom(Unwrap(obs[p].removed))

\* C3: a delete whose removal statement affects zero rows, the row having
\* been fetched, fails with 404.
C3_VanishedRowIsNotFound ==
    \A p \in Procs :
        Done(p) /\ req[p].op = "delete" /\ obs[p].affected = Some(0) => Status(p) = 404

\* The stored value of a nullable column after a PATCH member m met `old`.
TriState(m, old) ==
    CASE m.json = "absent" -> old
      [] m.json = "null" -> None
      [] OTHER -> Some(m.value)

UpdateSucceeded(p) == Done(p) /\ req[p].op = "update" /\ Status(p) = 200

C5_UpdatedAtStrictlyIncreases ==
    \A p \in Procs :
        UpdateSucceeded(p) =>
            Unwrap(obs[p].post).updated_at > Unwrap(obs[p].pre).updated_at

\* C6: every stored row has updated_at >= created_at.
C6_UpdatedNotBeforeCreated ==
    \A r \in users : r.updated_at >= r.created_at

\* C7: no two stored rows share a username, and a create or update that
\* meets its username on another row fails with the 409 envelope.
C7_UniqueUsernames ==
    /\ \A r1, r2 \in users : r1.username = r2.username => r1 = r2
    /\ \A p \in Procs :
          Done(p) /\ req[p].op \in {"create", "update"} /\ obs[p].taken = Some(TRUE)
              => Status(p) = 409 /\ IsEnvelope(Unwrap(resp[p]))

\* C7 witness: a create met its username on a stored row and got 409, the
\* table still holding one row of that username.
C7_Witness ==
    \E p \in Procs :
        /\ Done(p) /\ req[p].op = "create" /\ obs[p].taken = Some(TRUE)
        /\ Status(p) = 409
        /\ \E r \in users : r.username = Unwrap(loc[p]).username

\* C8: get, update and delete fail with 404 when their keyed statement
\* runs and meets no row with the id.
C8_MissingIdIsNotFound ==
    \A p \in Procs :
        Done(p) /\ req[p].op \in {"get", "update", "delete"} /\ obs[p].found = Some(FALSE)
            => Status(p) = 404

\* C8 witness: an update ran on an id no row has and got 404.
C8_Witness ==
    \E p \in Procs :
        /\ Done(p) /\ req[p].op = "update" /\ obs[p].found = Some(FALSE)
        /\ Status(p) = 404
        /\ RowsById(users, req[p].id) = {}

\* C9: every failure response carries the JSON envelope whose code is the
\* response's status.
C9_FailuresCarryEnvelope ==
    \A p \in Procs :
        Done(p) /\ Status(p) # 200 => IsEnvelope(Unwrap(resp[p]))

\* The taxonomy's status for a failure, by its class.
TaxonomyStatus(f) ==
    CASE f.at.site = "validate" -> 400
      [] f.at.site = "pool" -> 500
      [] f.err = NotFound -> 404
      [] f.err = UniqueViolation -> 409
      [] f.err = ForeignKeyViolation -> 422
      [] OTHER -> 500

\* C10: every failure is classified, with the status of its class: not
\* found 404, unique violation 409, foreign-key violation 422, validation
\* 400, anything else (a pool failure included) 500, and no other status.
C10_ClassifierTotal ==
    IsSome(outcome) =>
        /\ Unwrap(outcome).status = TaxonomyStatus(failure)
        /\ Unwrap(outcome).status \in {400, 404, 409, 422, 500}

\* C10 witness: a statement's foreign-key violation has been classified 422.
C10_Witness ==
    /\ IsSome(outcome)
    /\ failure.at.site = "statement" /\ failure.err = ForeignKeyViolation
    /\ Unwrap(outcome).status = 422

\* C11: a handler holds at most one pooled connection, holds none before
\* pool.get() has answered and none once it has returned, whatever the
\* response; the connections in use never exceed MAX_DB_CONNECTIONS and are
\* zero when no request is in flight.
C11_ConnectionsReleased ==
    /\ \A p \in Slots :
          /\ conn[p] <= 1
          /\ pc[p] \in {"idle", "acquire", "done"} => conn[p] = 0
          /\ pc[p] \in {"query", "execute"} => conn[p] = 1
    /\ InUse <= MAX_DB_CONNECTIONS
    /\ (\A p \in Slots : pc[p] \in {"idle", "done"}) => InUse = 0

\* C11 witness: a handler holds the pool's last connection and the other
\* request waits in pool.get().
C11_Witness ==
    /\ InUse = MAX_DB_CONNECTIONS
    /\ \E p, q \in Procs : pc[p] = "acquire" /\ pc[q] = "execute" /\ conn[q] = 1

\* C12: a create or an update whose username is empty is refused (with
\* 400, and so never answered with success), and no stored row has an
\* empty username.
C12_EmptyUsernameRejected ==
    /\ \A p \in Procs :
          Done(p) /\ req[p].op \in {"create", "update"} /\ req[p].body.username = Str("")
              => Status(p) # 200
    /\ \A r \in users : r.username # ""

\* C13: a get whose statement runs on an id that a create has inserted,
\* and that no update has changed and no delete has named since, returns
\* that id with the username, first_name and last_name the create was
\* given, a name that was absent being absent.
C13_GetReturnsWhatWasCreated ==
    \A p \in Procs :
        Done(p) /\ req[p].op = "get" /\ IsSome(obs[p].found) =>
            \A c \in Unwrap(hist).created :
                c.id = req[p].id =>
                    /\ Status(p) = 200
                    /\ Body(p).user.id = c.id
                    /\ Body(p).user.username = c.input.username
                    /\ Body(p).user.first_name = c.input.first_name
                    /\ Body(p).user.last_name = c.input.last_name

\* C13 witness: a get has returned a row created without names while
\* another row, created with names, is stored beside it.
C13_Witness ==
    \E p \in Procs :
        /\ Done(p) /\ req[p].op = "get" /\ Status(p) = 200
        /\ \E c \in Unwrap(hist).created :
              /\ c.id = req[p].id
              /\ c.input.first_name = None
              /\ Body(p).user.first_name = None
        /\ \E c \in Unwrap(hist).created : c.id # req[p].id /\ IsSome(c.input.first_name)

C15_UpdateKeepsIdAndCreatedAt ==
    /\ \A p \in Procs :
          UpdateSucceeded(p) =>
              /\ Unwrap(obs[p].post).id = Unwrap(obs[p].pre).id
              /\ Unwrap(obs[p].post).created_at = Unwrap(obs[p].pre).created_at
              /\ Body(p).user.id = req[p].id
    /\ \A r \in users : r.created_at = as_millisecond(r.id.time)

\* C15 witness: an update has given a row a new username and a later
\* updated_at, its created_at being the one it had.
C15_Witness ==
    \E p \in Procs :
        /\ UpdateSucceeded(p)
        /\ Unwrap(obs[p].post).username # Unwrap(obs[p].pre).username
        /\ Unwrap(obs[p].post).updated_at > Unwrap(obs[p].pre).updated_at
        /\ Unwrap(obs[p].post).created_at = Unwrap(obs[p].pre).created_at

CreateSucceeded(p) == Done(p) /\ req[p].op = "create" /\ Status(p) = 200

C17_InvalidTimestampUnreachable ==
    /\ \A r \in users : ~Panics(r)
    /\ \A p \in Procs : Done(p) => Unwrap(resp[p]) # Panicked

\* C17 witness: a list has converted a row whose updated_at an update
\* wrote after the millisecond of its created_at.
C17_Witness ==
    \E p \in Procs :
        /\ Done(p) /\ req[p].op = "list" /\ Status(p) = 200
        /\ \E u \in Body(p).list : u.updated_at.ms > u.created_at.ms

\* C18: a create fails with 409 only when a stored row has its username.
C18_ConflictOnlyOnUsername ==
    \A p \in Procs :
        Done(p) /\ req[p].op = "create" /\ Status(p) = 409
            => \E r \in users : r.username = req[p].body.username.value

\* What a step of slot p does to the table, by the request p serves.
Frame(p) ==
    LET r == IF req[p].op = "none" THEN req'[p] ELSE req[p]
    IN  /\ r.op \in {"none", "list", "get"} => users' = users
        /\ r.op = "create" =>
              /\ users \subseteq users'
              /\ \A x \in users' \ users : IsSome(loc[p]) /\ x.id = Unwrap(loc[p]).id
        /\ r.op \in {"update", "delete"} =>
              \A x \in users \cup users' : x.id # r.id => x \in users /\ x \in users'
        /\ pc'[p] = "done" /\ Unwrap(resp'[p]).status \in {400, 404, 409} => users' = users

\* C19: every step changes at most the row its request targets: list and
\* get change nothing, create leaves every stored row as it was, update and
\* delete leave the rows with other ids as they were, and a request
\* answered 400, 404 or 409 leaves the table as it was.
C19_OnlyTheTargetRowChanges ==
    [][/\ (\A p \in Procs : pc'[p] = pc[p]) => users' = users
       /\ \A p \in Procs : pc'[p] # pc[p] => Frame(p)]_vars

\* C19 witness: a delete has removed its row and left the row with
\* another id that is stored beside it.
C19_Witness ==
    \E p \in Procs :
        /\ Done(p) /\ req[p].op = "delete" /\ Status(p) = 200
        /\ IsSome(obs[p].removed)
        /\ \E x \in users : x.id # req[p].id

====
